---- MODULE Spec2Model ----
(***************************************************************************)
(* Model of src/lib/constraints.ts: the four French writing constraints    *)
(* (lipogram, monovocalism, tautogram, alliteration), the text normalizer  *)
(* and the word tokenizer they are built on.                               *)
(*                                                                         *)
(* A JavaScript string is a sequence of UTF-16 code units; every character *)
(* used here is in the Basic Multilingual Plane, so a string is modelled   *)
(* as a sequence of code points (integers).                                *)
(***************************************************************************)
EXTENDS Integers, Sequences, FiniteSets, TLC

VARIABLES
    VOWELS,          \* the exported array VOWELS
    CONSONANTS,      \* the exported array CONSONANTS
    ALPHABET,        \* the exported array ALPHABET
    lastIndex,       \* WORD_REGEX.lastIndex (WORD_REGEX carries the g flag)
    text,            \* argument text of the validate call
    param,           \* argument param of the validate call
    cid,             \* id of the constraint whose validate ran last ("none": none yet)
    words,           \* local words of the tautogram / alliteration validate
    normalizedText,  \* local normalizedText of the lipogram / monovocalism validate
    result           \* value returned by the validate call

vars == <<VOWELS, CONSONANTS, ALPHABET, lastIndex, text, param, cid, words,
          normalizedText, result>>

-----------------------------------------------------------------------------
(* Bounds of the model.                                                    *)

\* longest generated text
MaxLen == 3
\* longest generated text in the specification of call sequences
MaxCallLen == 2

-----------------------------------------------------------------------------
(* String literals.                                                        *)

\* The ASCII letters and digits, in code point order.
AsciiUpper ==
    <<"A", "B", "C", "D", "E", "F", "G", "H", "I", "J", "K", "L", "M",
      "N", "O", "P", "Q", "R", "S", "T", "U", "V", "W", "X", "Y", "Z">>

AsciiLower ==
    <<"a", "b", "c", "d", "e", "f", "g", "h", "i", "j", "k", "l", "m",
      "n", "o", "p", "q", "r", "s", "t", "u", "v", "w", "x", "y", "z">>

AsciiDigit == <<"0", "1", "2", "3", "4", "5", "6", "7", "8", "9">>

\* Position of x in the sequence s.
IndexIn(s, x) == CHOOSE i \in 1..Len(s) : s[i] = x

\* Code point of a character written as a one-character string; the characters
\* outside ASCII are written U+XXXX.
Ord(ch) ==
    CASE ch = " " -> 32
      [] ch = "'" -> 39
      [] ch = "-" -> 45
      [] ch = "." -> 46
      [] ch = "_" -> 95
      [] ch = "U+00C7" -> 199      \* C with cedilla
      [] ch = "U+00C9" -> 201      \* E with acute
      [] ch = "U+00E0" -> 224      \* a with grave
      [] ch = "U+00E7" -> 231      \* c with cedilla
      [] ch = "U+00E8" -> 232      \* e with grave
      [] ch = "U+00E9" -> 233      \* e with acute
      [] ch = "U+0301" -> 769      \* combining acute accent
      [] ch = "U+034F" -> 847      \* combining grapheme joiner
      [] ch = "U+05B0" -> 1456     \* Hebrew point sheva
      [] ch = "U+05B1" -> 1457     \* Hebrew point hataf segol
      [] \E i \in 1..10 : AsciiDigit[i] = ch -> 47 + IndexIn(AsciiDigit, ch)
      [] \E i \in 1..26 : AsciiUpper[i] = ch -> 64 + IndexIn(AsciiUpper, ch)
      [] \E i \in 1..26 : AsciiLower[i] = ch -> 96 + IndexIn(AsciiLower, ch)

\* The string whose characters are s[1], s[2], ...
Str(s) == [i \in 1..Len(s) |-> Ord(s[i])]

\* The elements of a sequence.
Range(s) == {s[i] : i \in 1..Len(s)}

\* All strings over the characters cs of length at most n.
StringsUpTo(cs, n) == UNION {[1..k -> cs] : k \in 0..n}

-----------------------------------------------------------------------------
(* String.prototype.toLowerCase, on Basic Latin, Latin-1 and the marks.    *)

toLowerCaseChar(c) ==
    IF c \in 65..90 \/ (c \in 192..222 /\ c # 215) THEN c + 32 ELSE c

\* The string left as it is: a comparison that forgets to lowercase.
noLowerCase(s) == s

toLowerCase(s) == [i \in 1..Len(s) |-> toLowerCaseChar(s[i])]

-----------------------------------------------------------------------------
(* String.prototype.normalize('NFD'): canonical decomposition of each      *)
(* character, then canonical ordering of the combining marks.              *)

\* Base letters of the Latin-1 letters U+00C0 .. U+00DF, by offset from U+00C0;
\* 0 where the letter has no canonical decomposition.
Latin1Base ==
    <<65, 65, 65, 65, 65, 65, 0, 67, 69, 69, 69, 69, 73, 73, 73, 73,
      0, 78, 79, 79, 79, 79, 79, 0, 0, 85, 85, 85, 85, 89, 0, 0>>

\* Their combining marks.
Latin1Mark ==
    <<768, 769, 770, 771, 776, 778, 0, 807, 768, 769, 770, 776, 768, 769, 770, 776,
      0, 771, 768, 769, 770, 771, 776, 0, 0, 768, 769, 770, 776, 769, 0, 0>>

\* Canonical decomposition of one character.
Decompose(c) ==
    CASE c = 255 -> <<121, 776>>
      [] c \in 192..254 /\ Latin1Base[((c - 192) % 32) + 1] # 0 ->
            <<Latin1Base[((c - 192) % 32) + 1] + (IF c >= 224 THEN 32 ELSE 0),
              Latin1Mark[((c - 192) % 32) + 1]>>
      [] c = 832 -> <<768>>
      [] c = 833 -> <<769>>
      [] c = 835 -> <<787>>
      [] c = 836 -> <<776, 769>>
      [] OTHER -> <<c>>

\* Canonical combining class of a character.
CombiningClass(c) ==
    CASE c \in (768..788) \cup (829..836) \cup {838} \cup (842..844)
               \cup (848..850) \cup {855, 859} \cup (867..879) -> 230
      [] c \in (790..793) \cup (796..800) \cup (803..806) \cup (809..819)
               \cup (825..828) \cup (839..841) \cup (845..846)
               \cup (851..854) \cup (857..858) -> 220
      [] c \in {789, 794, 856} -> 232
      [] c = 795 -> 216
      [] c \in {801, 802, 807, 808} -> 202
      [] c \in 820..824 -> 1
      [] c = 837 -> 240
      [] c \in {860, 863, 866} -> 233
      [] c \in {861, 862, 864, 865} -> 234
      [] c \in 1456..1465 -> c - 1446
      [] OTHER -> 0

RECURSIVE DecomposeAll(_)
DecomposeAll(s) ==
    IF s = <<>> THEN <<>> ELSE Decompose(Head(s)) \o DecomposeAll(Tail(s))

\* Canonical ordering, one character at a time: a mark moves left past the marks
\* of a higher class; a character of class 0 is never passed.
RECURSIVE InsertMark(_, _)
InsertMark(s, c) ==
    IF \/ s = <<>>
       \/ CombiningClass(c) = 0
       \/ CombiningClass(s[Len(s)]) = 0
       \/ CombiningClass(s[Len(s)]) <= CombiningClass(c)
    THEN Append(s, c)
    ELSE Append(InsertMark(SubSeq(s, 1, Len(s) - 1), c), s[Len(s)])

RECURSIVE CanonicalOrder(_, _)
CanonicalOrder(done, rest) ==
    IF rest = <<>> THEN done
    ELSE CanonicalOrder(InsertMark(done, Head(rest)), Tail(rest))

NFD(s) == CanonicalOrder(<<>>, DecomposeAll(s))

\* The character class [\u0300-\u036f].
IsCombiningDiacritic(c) == c >= 768 /\ c <= 879

\* normalizeText: input.normalize('NFD').replace(/[\u0300-\u036f]/g, '')
normalizeText(input) == SelectSeq(NFD(input), LAMBDA c : ~IsCombiningDiacritic(c))

-----------------------------------------------------------------------------
(* WORD_REGEX = /[\w'-]+(?<!-)/g and String.prototype.match.  Indices are  *)
(* the 0-based indices of JavaScript: the character at index i is s[i+1].  *)

\* The character class [\w'-]; without the u flag \w is [A-Za-z0-9_].
IsWordClassChar(c) ==
    c \in (48..57) \cup (65..90) \cup (97..122) \cup {95} \cup {39, 45}

\* Number of consecutive characters of the class from index i on.
RECURSIVE RunLength(_, _)
RunLength(s, i) ==
    IF i < Len(s) /\ IsWordClassChar(s[i + 1]) THEN 1 + RunLength(s, i + 1) ELSE 0

\* The match of the pattern at index i: the end index of the longest run prefix
\* (the + is greedy and backtracks) not ending in "-" (the lookbehind), or -1.
MatchAt(s, i) ==
    LET ks == {k \in 1..RunLength(s, i) : s[i + k] # 45}
    IN  IF ks = {} THEN -1 ELSE i + (CHOOSE k \in ks : \A j \in ks : j <= k)

\* The first index from i on at which the pattern matches, or -1.
RECURSIVE Search(_, _)
Search(s, i) ==
    IF i > Len(s) THEN -1
    ELSE IF MatchAt(s, i) # -1 THEN i
    ELSE Search(s, i + 1)

\* WORD_REGEX.exec(s) with WORD_REGEX.lastIndex = li: the search starts at li; a
\* match leaves lastIndex at its end, a failure resets lastIndex to 0.
RegExpExec(s, li) ==
    LET i == IF li > Len(s) THEN -1 ELSE Search(s, li)
    IN  IF i = -1
        THEN [found |-> FALSE, match |-> <<>>, lastIndex |-> 0]
        ELSE [found |-> TRUE, match |-> SubSeq(s, i + 1, MatchAt(s, i)),
              lastIndex |-> MatchAt(s, i)]

\* The loop of RegExp.prototype[Symbol.match] for a global regex: exec until it
\* fails, collecting the matched substrings.
RECURSIVE MatchLoop(_, _, _)
MatchLoop(s, li, A) ==
    LET r == RegExpExec(s, li)
    IN  IF r.found THEN MatchLoop(s, r.lastIndex, Append(A, r.match))
        ELSE [isNull |-> A = <<>>, matches |-> A, lastIndex |-> r.lastIndex]

\* What a single WORD_REGEX.exec(s) in place of s.match(WORD_REGEX) would give.
ExecOnce(s, li) ==
    LET r == RegExpExec(s, li)
    IN  [isNull |-> ~r.found,
         matches |-> IF r.found THEN <<r.match>> ELSE <<>>,
         lastIndex |-> r.lastIndex]

\* s.match(WORD_REGEX), called when WORD_REGEX.lastIndex is li: lastIndex is set to
\* 0 first; the result is null when nothing matches.
StringMatch(s, li) == MatchLoop(s, 0, <<>>)

\* m || []
OrEmpty(m) == IF m.isNull THEN <<>> ELSE m.matches

-----------------------------------------------------------------------------
(* String.prototype.includes and String.prototype.startsWith.              *)

\* s.indexOf(searchString) > 0 in place of includes: an occurrence at index 0 is
\* missed.
indexOfPositive(s, searchString) ==
    \E i \in 1..(Len(s) - Len(searchString)) :
        SubSeq(s, i + 1, i + Len(searchString)) = searchString

includes(s, searchString) ==
    \E i \in 0..(Len(s) - Len(searchString)) :
        SubSeq(s, i + 1, i + Len(searchString)) = searchString

\* s[0] === searchString[0] in place of startsWith: only the first characters are
\* compared.
firstCharEquals(s, searchString) ==
    /\ Len(s) >= 1
    /\ Len(searchString) >= 1
    /\ s[1] = searchString[1]

startsWith(s, searchString) ==
    /\ Len(searchString) <= Len(s)
    /\ SubSeq(s, 1, Len(searchString)) = searchString

-----------------------------------------------------------------------------
(* The letter tables.  A letter is a string of one character.              *)

Letter(ch) == <<Ord(ch)>>

VowelLetters ==
    <<Letter("a"), Letter("e"), Letter("i"), Letter("o"), Letter("u"), Letter("y")>>

ConsonantLetters ==
    <<Letter("b"), Letter("c"), Letter("d"), Letter("f"), Letter("g"), Letter("h"),
      Letter("j"), Letter("k"), Letter("l"), Letter("m"), Letter("n"), Letter("p"),
      Letter("q"), Letter("r"), Letter("s"), Letter("t"), Letter("v"), Letter("w"),
      Letter("x"), Letter("z")>>

\* a < b in the order of Array.prototype.sort without a comparator (code units).
RECURSIVE StrLess(_, _)
StrLess(a, b) ==
    IF b = <<>> THEN FALSE
    ELSE IF a = <<>> THEN TRUE
    ELSE IF Head(a) # Head(b) THEN Head(a) < Head(b)
    ELSE StrLess(Tail(a), Tail(b))

\* Array.prototype.sort() of an array of strings.
RECURSIVE SortStrings(_)
SortStrings(arr) ==
    IF arr = <<>> THEN <<>>
    ELSE LET m == CHOOSE i \in 1..Len(arr) :
                      \A j \in 1..Len(arr) : ~StrLess(arr[j], arr[i]) /\ (arr[j] = arr[i] => i <= j)
         IN  <<arr[m]>> \o SortStrings(SubSeq(arr, 1, m - 1) \o SubSeq(arr, m + 1, Len(arr)))

\* [...VOWELS, ...CONSONANTS].sort()
AlphabetLetters == SortStrings(VowelLetters \o ConsonantLetters)

-----------------------------------------------------------------------------
(* The validate functions of CONSTRAINTS.  A result is { isValid: true } or *)
(* { isValid: false, error }; the error, a template literal, is the tuple   *)
(* of its literal parts and its substitutions.                              *)

Valid == [isValid |-> TRUE]

Invalid(error) == [isValid |-> FALSE, error |-> error]

\* CONSTRAINTS[lipogram].validate
lipogramValidate(t, p) ==
    LET forbiddenLetter == toLowerCase(p)
        nt == normalizeText(toLowerCase(t))
    IN  [normalizedText |-> nt,
         result |->
            IF includes(nt, forbiddenLetter)
            THEN Invalid(<<"Lettre interdite détectée : \"", forbiddenLetter, "\"">>)
            ELSE Valid]

\* VOWELS without the filter: the allowed vowel is forbidden too.
allVowelsOf(vowels, allowedVowel) == vowels

\* VOWELS.filter(v => v !== allowedVowel)
otherVowelsOf(vowels, allowedVowel) == SelectSeq(vowels, LAMBDA v : v # allowedVowel)

\* The loop of the monovocalism validate over the characters from index i on.
RECURSIVE monovocalismScan(_, _, _)
monovocalismScan(nt, otherVowels, i) ==
    IF i > Len(nt) THEN Valid
    ELSE IF \E k \in 1..Len(otherVowels) : otherVowels[k] = <<nt[i]>>
    THEN Invalid(<<"Voyelle non autorisée détectée : \"", <<nt[i]>>, "\"">>)
    ELSE monovocalismScan(nt, otherVowels, i + 1)

\* CONSTRAINTS[monovocalism].validate, reading the array VOWELS
monovocalismValidate(t, p, vowels) ==
    LET allowedVowel == toLowerCase(p)
        otherVowels == otherVowelsOf(vowels, allowedVowel)
        nt == normalizeText(toLowerCase(t))
    IN  [normalizedText |-> nt, result |-> monovocalismScan(nt, otherVowels, 1)]

\* The tautogram loop quoting normalizedWord in place of word.
RECURSIVE tautogramScanQuotingNormalized(_, _, _)
tautogramScanQuotingNormalized(ws, initialLetter, i) ==
    IF i > Len(ws) THEN Valid
    ELSE IF ~startsWith(normalizeText(toLowerCase(ws[i])), initialLetter)
    THEN Invalid(<<"Le mot \"", normalizeText(toLowerCase(ws[i])),
                   "\" ne commence pas par \"", initialLetter, "\"">>)
    ELSE tautogramScanQuotingNormalized(ws, initialLetter, i + 1)

\* The loop of the tautogram validate over the words from the i-th on.
RECURSIVE tautogramScan(_, _, _)
tautogramScan(ws, initialLetter, i) ==
    IF i > Len(ws) THEN Valid
    ELSE IF ~startsWith(normalizeText(toLowerCase(ws[i])), initialLetter)
    THEN Invalid(<<"Le mot \"", ws[i], "\" ne commence pas par \"", initialLetter, "\"">>)
    ELSE tautogramScan(ws, initialLetter, i + 1)

\* CONSTRAINTS[tautogram].validate, called when WORD_REGEX.lastIndex is li
tautogramValidate(t, p, li) ==
    LET m == StringMatch(t, li)
        ws == OrEmpty(m)
        initialLetter == toLowerCase(p)
    IN  [words |-> ws, lastIndex |-> m.lastIndex,
         result |-> tautogramScan(ws, initialLetter, 1)]

\* The alliteration loop preceded by a check that the parameter is a consonant.
RECURSIVE alliterationScanCheckingConsonant(_, _, _)
alliterationScanCheckingConsonant(ws, initialConsonant, i) ==
    IF initialConsonant \notin Range(ConsonantLetters)
    THEN Invalid(<<"Le mot \"", <<>>, "\" ne commence pas par la consonne \"",
                   initialConsonant, "\"">>)
    ELSE IF i > Len(ws) THEN Valid
    ELSE IF ~startsWith(normalizeText(toLowerCase(ws[i])), initialConsonant)
    THEN Invalid(<<"Le mot \"", ws[i], "\" ne commence pas par la consonne \"",
                   initialConsonant, "\"">>)
    ELSE alliterationScanCheckingConsonant(ws, initialConsonant, i + 1)

\* The loop of the alliteration validate over the words from the i-th on.
RECURSIVE alliterationScan(_, _, _)
alliterationScan(ws, initialConsonant, i) ==
    IF i > Len(ws) THEN Valid
    ELSE IF ~startsWith(normalizeText(toLowerCase(ws[i])), initialConsonant)
    THEN Invalid(<<"Le mot \"", ws[i], "\" ne commence pas par la consonne \"",
                   initialConsonant, "\"">>)
    ELSE alliterationScan(ws, initialConsonant, i + 1)

\* CONSTRAINTS[alliteration].validate, called when WORD_REGEX.lastIndex is li
alliterationValidate(t, p, li) ==
    LET m == StringMatch(t, li)
        ws == OrEmpty(m)
        initialConsonant == toLowerCase(p)
    IN  [words |-> ws, lastIndex |-> m.lastIndex,
         result |-> alliterationScan(ws, initialConsonant, 1)]

\* The ids of CONSTRAINTS, in order.
CONSTRAINTS == <<"lipogram", "monovocalism", "tautogram", "alliteration">>

-----------------------------------------------------------------------------
(* The calls, as actions: validate of each constraint on the text t and     *)
(* the parameter p.  A local that the call does not have is left empty.     *)

CallLipogram(t, p) ==
    LET r == lipogramValidate(t, p)
    IN  /\ text' = t
        /\ param' = p
        /\ cid' = CONSTRAINTS[1]
        /\ normalizedText' = r.normalizedText
        /\ words' = <<>>
        /\ result' = r.result
        /\ UNCHANGED <<VOWELS, CONSONANTS, ALPHABET, lastIndex>>

CallMonovocalism(t, p) ==
    LET r == monovocalismValidate(t, p, VOWELS)
    IN  /\ text' = t
        /\ param' = p
        /\ cid' = CONSTRAINTS[2]
        /\ normalizedText' = r.normalizedText
        /\ words' = <<>>
        /\ result' = r.result
        /\ UNCHANGED <<VOWELS, CONSONANTS, ALPHABET, lastIndex>>

CallTautogram(t, p) ==
    LET r == tautogramValidate(t, p, lastIndex)
    IN  /\ text' = t
        /\ param' = p
        /\ cid' = CONSTRAINTS[3]
        /\ normalizedText' = <<>>
        /\ words' = r.words
        /\ lastIndex' = r.lastIndex
        /\ result' = r.result
        /\ UNCHANGED <<VOWELS, CONSONANTS, ALPHABET>>

CallAlliteration(t, p) ==
    LET r == alliterationValidate(t, p, lastIndex)
    IN  /\ text' = t
        /\ param' = p
        /\ cid' = CONSTRAINTS[4]
        /\ normalizedText' = <<>>
        /\ words' = r.words
        /\ lastIndex' = r.lastIndex
        /\ result' = r.result
        /\ UNCHANGED <<VOWELS, CONSONANTS, ALPHABET>>

\* The state once the module is loaded, before any call.
Loaded ==
    /\ VOWELS = VowelLetters
    /\ CONSONANTS = ConsonantLetters
    /\ ALPHABET = AlphabetLetters
    /\ lastIndex = 0
    /\ cid = "none"
    /\ words = <<>>
    /\ normalizedText = <<>>
    /\ result = Valid

-----------------------------------------------------------------------------
(* Specification Spec: the four validate functions applied, in any order   *)
(* and any number of times, to a text and a parameter drawn from the       *)
(* inputs below.  Before the first call result holds no returned value.    *)

\* Characters of the generated texts: letters in both cases, a letter with an
\* accent, the hyphen and the space.
WordChars == Range(Str(<<"P", "e", "U+00C9", "a", "-", " ">>))

\* Characters of the generated texts with combining marks.
MarkChars == Range(Str(<<"e", "U+0301", "U+034F", "U+05B0", "U+05B1">>))

\* The texts of the examples.
ExampleTexts ==
    {Str(<<"P","i","e","r","r","e"," ","p","o","r","t","e"," ","d","e","s"," ",
           "p","o","m","m","e","s",".">>),
     Str(<<"P","i","e","r","r","e"," ","m","a","n","g","e",".">>),
     Str(<<"g","r","a","n","d","-","m","U+00E8","r","e"," ","d","i","t","-","e","l","l","e">>),
     Str(<<"b","o","n","j","o","u","r","-">>),
     Str(<<"U+00C7","a"," ","c","o","u","p","e">>),
     Str(<<"U+00C9","t","U+00E9"," ","e","n","t","i","e","r">>),
     Str(<<"l","'","e","a","u"," ","-","e","t","-"," ","e","_","1">>)}

Texts == StringsUpTo(WordChars, MaxLen) \cup StringsUpTo(MarkChars, MaxLen) \cup ExampleTexts

\* The parameters: letters in both cases, and values outside every option set.
Params ==
    {Str(<<"p">>), Str(<<"P">>), Str(<<"e">>), Str(<<"E">>), Str(<<"o">>), Str(<<"c">>),
     Str(<<>>), Str(<<"1">>), Str(<<"p", "e">>)}

Init ==
    /\ Loaded
    /\ text \in Texts
    /\ param \in Params

Lipogram == CallLipogram(text, param)

Monovocalism == CallMonovocalism(text, param)

Tautogram == CallTautogram(text, param)

Alliteration == CallAlliteration(text, param)

Next == Lipogram \/ Monovocalism \/ Tautogram \/ Alliteration

Spec == Init /\ [][Next]_vars

-----------------------------------------------------------------------------
(* Specification SpecCalls: sequences of calls whose arguments change from *)
(* one call to the next.                                                   *)

CallTexts == StringsUpTo(Range(Str(<<"p", "e", " ">>)), MaxCallLen)

CallParams == {Str(<<"p">>), Str(<<"e">>), Str(<<"E">>)}

InitCalls ==
    /\ Loaded
    /\ text = <<>>
    /\ param = <<>>

AnyLipogram == \E t \in CallTexts, p \in CallParams : CallLipogram(t, p)

AnyMonovocalism == \E t \in CallTexts, p \in CallParams : CallMonovocalism(t, p)

AnyTautogram == \E t \in CallTexts, p \in CallParams : CallTautogram(t, p)

AnyAlliteration == \E t \in CallTexts, p \in CallParams : CallAlliteration(t, p)

NextCalls == AnyLipogram \/ AnyMonovocalism \/ AnyTautogram \/ AnyAlliteration

SpecCalls == InitCalls /\ [][NextCalls]_vars

-----------------------------------------------------------------------------
(* Terms of the properties.                                                *)

PierrePorte ==
    Str(<<"P","i","e","r","r","e"," ","p","o","r","t","e"," ","d","e","s"," ",
          "p","o","m","m","e","s",".">>)

PierreMange == Str(<<"P","i","e","r","r","e"," ","m","a","n","g","e",".">>)

GrandMere ==
    Str(<<"g","r","a","n","d","-","m","U+00E8","r","e"," ","d","i","t","-","e","l","l","e">>)

Bonjour == Str(<<"b","o","n","j","o","u","r","-">>)

\* The lowercased, diacritic-stripped form of the text of the call.
Stripped == normalizeText(toLowerCase(text))

\* The parameter in the other case.
OtherCase(p) == [i \in 1..Len(p) |-> IF p[i] \in 97..122 THEN p[i] - 32
                                     ELSE IF p[i] \in 65..90 THEN p[i] + 32 ELSE p[i]]

\* The parameter is a letter of the alphabet, in either case.
IsLetterParam == Len(param) = 1 /\ (param[1] \in 97..122 \/ param[1] \in 65..90)

\* The letter, lowercased, as a character.
LetterChar == IF param[1] \in 65..90 THEN param[1] + 32 ELSE param[1]

\* The option set of the constraint called.
Options ==
    CASE cid = "lipogram" -> Range(ALPHABET)
      [] cid = "monovocalism" -> Range(VOWELS)
      [] cid = "tautogram" -> Range(ALPHABET)
      [] cid = "alliteration" -> Range(CONSONANTS)
      [] OTHER -> {}

\* The least element of a non-empty set of numbers.
Least(S) == CHOOSE i \in S : \A j \in S : i <= j

\* Positions of the stripped text that hold a vowel other than the string v.
OtherVowelPositions(v) ==
    {i \in 1..Len(Stripped) : <<Stripped[i]>> \in Range(VowelLetters) \ {v}}

\* Indices of the words that do not start with the string l once lowercased and
\* stripped.
FailingWords(l) ==
    {i \in 1..Len(words) :
        LET w == normalizeText(toLowerCase(words[i]))
        IN  ~(Len(w) >= Len(l) /\ \A k \in 1..Len(l) : w[k] = l[k])}

\* s occurs in the stripped text.
OccursInStripped(s) ==
    \E i \in 1..(Len(Stripped) - Len(s) + 1) : \A k \in 1..Len(s) : Stripped[i + k - 1] = s[k]

-----------------------------------------------------------------------------
(* Properties.                                                             *)

\* C1, as stated: tautogram reports "Pierre porte des pommes." with "p" valid, and
\* "Pierre mange." with "p" invalid with an error that names "mange".
C1_PierreAsStated ==
    (cid = "tautogram" /\ param = Str(<<"p">>)) =>
        /\ text = PierrePorte => result.isValid
        /\ text = PierreMange =>
              ~result.isValid /\ result.error[2] = Str(<<"m","a","n","g","e">>)

\* C1, amended: tautogram reports "Pierre porte des pommes." with "p" invalid with
\* an error that names "des", and "Pierre mange." with "p" invalid with an error
\* that names "mange".
C1_PierreAmended ==
    (cid = "tautogram" /\ param = Str(<<"p">>)) =>
        /\ text = PierrePorte =>
              ~result.isValid /\ result.error[2] = Str(<<"d","e","s">>)
        /\ text = PierreMange =>
              ~result.isValid /\ result.error[2] = Str(<<"m","a","n","g","e">>)

C1_Witness ==
    /\ cid = "tautogram"
    /\ param = Str(<<"p">>)
    /\ text = PierrePorte
    /\ Len(words) = 4
    /\ ~result.isValid

\* C2: the tokens are the runs of word characters, apostrophes and hyphens with a
\* trailing hyphen trimmed, a compound with an accented letter being one token:
\* "grand-mère dit-elle" gives "grand-mère", "dit-elle"; "bonjour-" gives
\* "bonjour"; a text without word characters gives no token.
C2_Tokens ==
    cid \in {"tautogram", "alliteration"} =>
        /\ text = GrandMere =>
              words = <<Str(<<"g","r","a","n","d","-","m","U+00E8","r","e">>),
                        Str(<<"d","i","t","-","e","l","l","e">>)>>
        /\ text = Bonjour => words = <<Str(<<"b","o","n","j","o","u","r">>)>>
        /\ Range(text) \subseteq {32, 46} => words = <<>>

\* C3: for a letter of the alphabet in either case, lipogram reports invalid
\* exactly when the lowercased, diacritic-stripped text contains the lowercased
\* letter, and the other case of the letter gives the same result, error included.
C3_Lipogram ==
    (cid = "lipogram" /\ IsLetterParam) =>
        /\ result.isValid = ~(\E i \in 1..Len(Stripped) : Stripped[i] = LetterChar)
        /\ ~result.isValid => result.error[2] = <<LetterChar>>
        /\ result = lipogramValidate(text, OtherCase(param)).result

C3_Witness ==
    /\ cid = "lipogram"
    /\ param = Str(<<"E">>)
    /\ 201 \in Range(text)
    /\ 101 \notin Range(text)
    /\ ~result.isValid

\* C4: for an allowed vowel, monovocalism reports valid exactly when the
\* lowercased, diacritic-stripped text holds none of the five other vowels, and
\* otherwise quotes the first character of that text that is one of them.
C4_Monovocalism ==
    (cid = "monovocalism" /\ param \in Range(VowelLetters)) =>
        /\ result.isValid = (OtherVowelPositions(param) = {})
        /\ ~result.isValid =>
              result.error[2] = <<Stripped[Least(OtherVowelPositions(param))]>>

C4_Witness ==
    /\ cid = "monovocalism"
    /\ param = Str(<<"o">>)
    /\ ~result.isValid
    /\ result.error[2] = Str(<<"a">>)
    /\ 101 \in Range(Stripped)

\* C5, as stated: a parameter outside the option set of the constraint always
\* gives the result valid.
C5_OutsideAsStated ==
    (cid # "none" /\ param \notin Options) => result.isValid

\* C5, amended: a parameter outside the option set is not checked and always
\* gives a result, decided by the usual test on the lowercased parameter:
\* lipogram is invalid exactly when the stripped text includes it (always, for
\* the empty string); monovocalism is invalid exactly when the stripped text
\* holds a vowel other than it; tautogram and alliteration are invalid exactly
\* when some word does not start with it (never, for the empty string).
C5_OutsideAmended ==
    (cid # "none" /\ param \notin Options) =>
        /\ result.isValid \in BOOLEAN
        /\ cid = "lipogram" =>
              /\ result.isValid = ~OccursInStripped(toLowerCase(param))
              /\ param = <<>> => ~result.isValid
        /\ cid = "monovocalism" =>
              result.isValid = (OtherVowelPositions(toLowerCase(param)) = {})
        /\ cid \in {"tautogram", "alliteration"} =>
              /\ result.isValid = (FailingWords(toLowerCase(param)) = {})
              /\ param = <<>> => result.isValid

C5_Witness ==
    /\ cid = "lipogram"
    /\ param = <<>>
    /\ text # <<>>
    /\ param \notin Options
    /\ ~result.isValid

\* C6: alliteration gives, for every text and parameter, vowels included, the
\* isValid of tautogram and names the same word; only the wording differs.
C6_AlliterationIsTautogram ==
    cid = "alliteration" =>
        LET t == tautogramValidate(text, param, lastIndex).result
        IN  /\ result.isValid = t.isValid
            /\ ~result.isValid =>
                  /\ result.error[2] = t.error[2]
                  /\ result.error[4] = t.error[4]
                  /\ result.error[3] = "\" ne commence pas par la consonne \""
                  /\ t.error[3] = "\" ne commence pas par \""

C6_Witness ==
    /\ cid = "alliteration"
    /\ param = Str(<<"e">>)
    /\ param \notin Range(CONSONANTS)
    /\ Len(words) >= 2
    /\ ~result.isValid

\* The result of the call as the first call after loading.
AsFirstCall ==
    CASE cid = "lipogram" -> lipogramValidate(text, param).result
      [] cid = "monovocalism" -> monovocalismValidate(text, param, VowelLetters).result
      [] cid = "tautogram" -> tautogramValidate(text, param, 0).result
      [] cid = "alliteration" -> alliterationValidate(text, param, 0).result
      [] OTHER -> Valid

\* C7: after any sequence of calls, the last call returned what it returns as the
\* first call, and VOWELS, CONSONANTS, ALPHABET and WORD_REGEX.lastIndex are as
\* they were when the module was loaded.
C7_Frame ==
    /\ VOWELS = VowelLetters
    /\ CONSONANTS = ConsonantLetters
    /\ ALPHABET = AlphabetLetters
    /\ lastIndex = 0
    /\ result = AsFirstCall

C7_Witness ==
    /\ cid = "tautogram"
    /\ Len(text) = 2
    /\ Len(words) = 1
    /\ ~result.isValid
    /\ lastIndex = 0

\* C8: for a letter of the alphabet, tautogram reports valid exactly when every
\* word, lowercased and diacritic-stripped, starts with the lowercased letter
\* (so also when there is no word), and otherwise quotes the first failing word
\* as it stands in the text.
C8_Tautogram ==
    (cid = "tautogram" /\ IsLetterParam) =>
        /\ result.isValid = (FailingWords(<<LetterChar>>) = {})
        /\ ~result.isValid =>
              /\ result.error[2] = words[Least(FailingWords(<<LetterChar>>))]
              /\ \E i \in 0..Len(text) :
                    result.error[2] = SubSeq(text, i + 1, i + Len(result.error[2]))

C8_Witness ==
    /\ cid = "tautogram"
    /\ IsLetterParam
    /\ ~result.isValid
    /\ Len(words) >= 2
    /\ 1 \notin FailingWords(<<LetterChar>>)
    /\ result.error[2] = words[2]
    /\ toLowerCase(result.error[2]) # result.error[2]

\* The positions of the text at which a word begins: a character other than a
\* space or a full stop, at the start or after one of these.
WordStarts ==
    {i \in 1..Len(text) : text[i] \notin {32, 46} /\ (i = 1 \/ text[i - 1] \in {32, 46})}

\* C9: a text each of whose words begins with the parameter letter or with an
\* accented or cedilla variant of it is reported valid by tautogram and
\* alliteration.
C9_BaseLetters ==
    (/\ cid \in {"tautogram", "alliteration"}
     /\ IsLetterParam
     /\ \A i \in WordStarts : normalizeText(toLowerCase(<<text[i]>>)) = <<LetterChar>>)
        => result.isValid

\* C10: the normalizer is idempotent, its result holds no combining mark of
\* U+0300..U+036F, and the empty string maps to the empty string.
C10_Idempotent ==
    cid \in {"lipogram", "monovocalism"} =>
        /\ normalizeText(normalizedText) = normalizedText
        /\ \A i \in 1..Len(normalizedText) : ~(normalizedText[i] \in 768..879)
        /\ text = <<>> => normalizedText = <<>>

====
